---- MODULE Spec2Model ----
(***************************************************************************)
(* Catalog-key resolution of app.py: the manifest index built by           *)
(* load_manifest and the lookup cascade of get_image_list.                 *)
(*                                                                         *)
(* A text is a sequence of characters; a character is a one-letter string. *)
(* "NBSP" stands for U+00A0 (no-break space) and "FW_A" for U+FF21         *)
(* (fullwidth A), the compatibility characters of the model.  The Python   *)
(* value None is the one-element sequence None below, which is no text.    *)
(* A dict is a sequence of entries in insertion order; assigning to a key  *)
(* that is already present keeps the key's position (Python dict).         *)
(***************************************************************************)
EXTENDS Integers, Sequences, FiniteSets, TLC

\* ------------------------------------------------------------------ bounds
MaxRows == 2

\* ------------------------------------------------------- text primitives
None == <<"<None>">>

\* str.isspace() of one character, the test behind strip() and split()
IsSpace(ch) == ch \in {" ", "\t", "NBSP"}

\* unicodedata.normalize("NFKC", s), character by character
NFKC(s) ==
  [i \in 1..Len(s) |->
     CASE s[i] = "NBSP" -> " "
       [] s[i] = "FW_A" -> "A"
       [] OTHER -> s[i]]

LowerChar(ch) ==
  CASE ch = "A" -> "a"
    [] ch = "B" -> "b"
    [] ch = "G" -> "g"
    [] ch = "J" -> "j"
    [] ch = "N" -> "n"
    [] ch = "P" -> "p"
    [] ch = "S" -> "s"
    [] OTHER -> ch

\* str.lower()
Lower(s) == [i \in 1..Len(s) |-> LowerChar(s[i])]

RECURSIVE LStrip(_)
LStrip(s) == IF s # <<>> /\ IsSpace(Head(s)) THEN LStrip(Tail(s)) ELSE s

RECURSIVE RStrip(_)
RStrip(s) ==
  IF s # <<>> /\ IsSpace(s[Len(s)]) THEN RStrip(SubSeq(s, 1, Len(s) - 1)) ELSE s

\* str.strip()
Strip(s) == RStrip(LStrip(s))

\* str.split(sep) with an explicit separator: empty pieces are kept
RECURSIVE SplitOnFrom(_, _, _, _)
SplitOnFrom(s, sep, i, cur) ==
  IF i > Len(s) THEN <<cur>>
  ELSE IF s[i] = sep THEN <<cur>> \o SplitOnFrom(s, sep, i + 1, <<>>)
  ELSE SplitOnFrom(s, sep, i + 1, Append(cur, s[i]))

SplitOn(s, sep) == SplitOnFrom(s, sep, 1, <<>>)

\* str.split() without a separator: runs of whitespace separate, and there
\* are no empty pieces
RECURSIVE SplitWsFrom(_, _, _)
SplitWsFrom(s, i, cur) ==
  IF i > Len(s) THEN (IF cur = <<>> THEN <<>> ELSE <<cur>>)
  ELSE IF IsSpace(s[i])
       THEN (IF cur = <<>> THEN <<>> ELSE <<cur>>) \o SplitWsFrom(s, i + 1, <<>>)
       ELSE SplitWsFrom(s, i + 1, Append(cur, s[i]))

SplitWs(s) == SplitWsFrom(s, 1, <<>>)

\* " ".join(words)
RECURSIVE JoinSp(_)
JoinSp(words) ==
  IF words = <<>> THEN <<>>
  ELSE IF Len(words) = 1 THEN words[1]
  ELSE words[1] \o <<" ">> \o JoinSp(Tail(words))

\* str.replace(old, new) for one-character old and new
Replace(s, old, new) == [i \in 1..Len(s) |-> IF s[i] = old THEN new ELSE s[i]]

\* mt.startswith(t)
StartsWith(s, pre) == Len(pre) <= Len(s) /\ SubSeq(s, 1, Len(pre)) = pre

\* u.endswith(suf)
EndsWith(s, suf) ==
  Len(suf) <= Len(s) /\ SubSeq(s, Len(s) - Len(suf) + 1, Len(s)) = suf

\* t in mt
Contains(sub, s) ==
  \E i \in 1..(Len(s) + 1) :
    i + Len(sub) - 1 <= Len(s) /\ SubSeq(s, i, i + Len(sub) - 1) = sub

\* ------------------------------------------------------ app.py helpers
\* str(s or "")
StrOrEmpty(s) == IF s = None \/ s = <<>> THEN <<>> ELSE s

_norm(s) == Lower(JoinSp(SplitWs(Strip(NFKC(StrOrEmpty(s))))))

_tokens(s) ==
  LET w == SplitWs(Replace(Replace(_norm(s), "-", " "), "_", " "))
  IN  {w[i] : i \in 1..Len(w)}

ImageExtSlash ==
  { <<".", "j", "p", "g", "/">>, <<".", "j", "p", "e", "g", "/">>,
    <<".", "p", "n", "g", "/">>, <<".", "w", "e", "b", "p", "/">> }

_clean_url(u) ==
  LET s == Strip(StrOrEmpty(u))
  IN  IF \E suf \in ImageExtSlash : EndsWith(Lower(s), suf)
      THEN SubSeq(s, 1, Len(s) - 1)
      ELSE s

\* ------------------------------------------------------------- the dict
Keys(d) == {d[i].key : i \in 1..Len(d)}

HasKey(d, k) == \E i \in 1..Len(d) : d[i].key = k

IndexOf(d, k) == CHOOSE i \in 1..Len(d) : d[i].key = k

Get(d, k) == d[IndexOf(d, k)].urls

\* d[k] = v
Put(d, k, v) ==
  IF HasKey(d, k)
  THEN [d EXCEPT ![IndexOf(d, k)] = [key |-> k, urls |-> v]]
  ELSE Append(d, [key |-> k, urls |-> v])

\* ------------------------------------------------------- load_manifest
RECURSIVE CleanAll(_)
CleanAll(parts) ==
  IF parts = <<>> THEN <<>>
  ELSE (IF _clean_url(Head(parts)) # <<>> THEN <<_clean_url(Head(parts))>> ELSE <<>>)
       \o CleanAll(Tail(parts))

\* [_clean_url(u) for u in (r.get("ImageURLs") or "").split("|") if _clean_url(u)]
RowUrls(r) == CleanAll(SplitOn(StrOrEmpty(r.ImageURLs), "|"))

RowKey(r) == <<_norm(r.Company), _norm(r.Product), _norm(r.Type)>>

Swap(k) == <<k[1], k[3], k[2]>>

\* RowAccepted without the test of urls
RowAcceptedAnyUrls(r) ==
  /\ RowKey(r)[1] # <<>>
  /\ RowKey(r)[2] # <<>>
  /\ RowKey(r)[3] # <<>>

\* RowAccepted without the test of c
RowAcceptedAnyCompany(r) ==
  /\ RowKey(r)[2] # <<>>
  /\ RowKey(r)[3] # <<>>
  /\ RowUrls(r) # <<>>

\* if c and p and t and urls
RowAccepted(r) ==
  /\ RowKey(r)[1] # <<>>
  /\ RowKey(r)[2] # <<>>
  /\ RowKey(r)[3] # <<>>
  /\ RowUrls(r) # <<>>

\* IndexOne with manifest.setdefault((c, t, p), urls) for the swapped key
IndexOneKeepAlias(d, r) ==
  IF RowAccepted(r)
  THEN LET d1 == Put(d, RowKey(r), RowUrls(r))
       IN  IF HasKey(d1, Swap(RowKey(r))) THEN d1
           ELSE Put(d1, Swap(RowKey(r)), RowUrls(r))
  ELSE d

\* one iteration of "for r in rows"
IndexOne(d, r) ==
  IF RowAccepted(r)
  THEN Put(Put(d, RowKey(r), RowUrls(r)), Swap(RowKey(r)), RowUrls(r))
  ELSE d

RECURSIVE BuildIndex(_, _)
BuildIndex(d, rs) ==
  IF rs = <<>> THEN d ELSE BuildIndex(IndexOne(d, Head(rs)), Tail(rs))

\* ------------------------------------------------ _match_from_manifest
\* SoftScan without "or t in mt"
RECURSIVE SoftScanPrefixOnly(_, _, _, _, _)
SoftScanPrefixOnly(d, i, c, p, t) ==
  IF i > Len(d) THEN 0
  ELSE IF /\ d[i].key[1] = c
          /\ d[i].key[2] = p
          /\ \/ d[i].key[3] = t
             \/ StartsWith(d[i].key[3], t)
       THEN i
       ELSE SoftScanPrefixOnly(d, i + 1, c, p, t)

\* 2) soft: the first entry, in dict order, with the same c, p whose type
\*    equals t, starts with t or contains t; 0 when there is none
RECURSIVE SoftScan(_, _, _, _, _)
SoftScan(d, i, c, p, t) ==
  IF i > Len(d) THEN 0
  ELSE IF /\ d[i].key[1] = c
          /\ d[i].key[2] = p
          /\ \/ d[i].key[3] = t
             \/ StartsWith(d[i].key[3], t)
             \/ Contains(t, d[i].key[3])
       THEN i
       ELSE SoftScan(d, i + 1, c, p, t)

Overlap(t, mt) == Cardinality(_tokens(t) \cap _tokens(mt))

\* TokenScan with "overlap >= best_overlap"
RECURSIVE TokenScanLastBest(_, _, _, _, _, _, _)
TokenScanLastBest(d, i, c, p, t, best, best_overlap) ==
  IF i > Len(d) THEN [best |-> best, best_overlap |-> best_overlap]
  ELSE IF /\ d[i].key[1] = c
          /\ d[i].key[2] = p
          /\ Overlap(t, d[i].key[3]) >= best_overlap
       THEN TokenScanLastBest(d, i + 1, c, p, t, i, Overlap(t, d[i].key[3]))
       ELSE TokenScanLastBest(d, i + 1, c, p, t, best, best_overlap)

\* 3) token overlap: the loop over MANIFEST.items() carrying best (as the
\*    position of its entry, 0 for None) and best_overlap
RECURSIVE TokenScan(_, _, _, _, _, _, _)
TokenScan(d, i, c, p, t, best, best_overlap) ==
  IF i > Len(d) THEN [best |-> best, best_overlap |-> best_overlap]
  ELSE IF /\ d[i].key[1] = c
          /\ d[i].key[2] = p
          /\ Overlap(t, d[i].key[3]) > best_overlap
       THEN TokenScan(d, i + 1, c, p, t, i, Overlap(t, d[i].key[3]))
       ELSE TokenScan(d, i + 1, c, p, t, best, best_overlap)

\* AnyScan with "if mc == c"
RECURSIVE AnyScanCompanyOnly(_, _, _, _)
AnyScanCompanyOnly(d, i, c, p) ==
  IF i > Len(d) THEN 0
  ELSE IF d[i].key[1] = c THEN i
  ELSE AnyScanCompanyOnly(d, i + 1, c, p)

\* 4) fallback: the first entry with the same c, p; 0 when there is none
RECURSIVE AnyScan(_, _, _, _)
AnyScan(d, i, c, p) ==
  IF i > Len(d) THEN 0
  ELSE IF d[i].key[1] = c /\ d[i].key[2] = p THEN i
  ELSE AnyScan(d, i + 1, c, p)

\* _match_from_manifest without tier 1
MatchWithoutExact(d, c, p, t) ==
  LET soft == SoftScan(d, 1, c, p, t)
      tok  == TokenScan(d, 1, c, p, t, 0, 0)
      any  == AnyScan(d, 1, c, p)
  IN  IF soft # 0 THEN d[soft].urls
      ELSE IF tok.best # 0 /\ d[tok.best].urls # <<>> /\ tok.best_overlap > 0
           THEN d[tok.best].urls
      ELSE IF any # 0 THEN d[any].urls
      ELSE <<>>

\* _match_from_manifest without tier 4
MatchWithoutFallback(d, c, p, t) ==
  LET soft == SoftScan(d, 1, c, p, t)
      tok  == TokenScan(d, 1, c, p, t, 0, 0)
  IN  IF HasKey(d, <<c, p, t>>) THEN Get(d, <<c, p, t>>)
      ELSE IF soft # 0 THEN d[soft].urls
      ELSE IF tok.best # 0 /\ d[tok.best].urls # <<>> /\ tok.best_overlap > 0
           THEN d[tok.best].urls
      ELSE <<>>

\* the cascade of lines 139-167
_match_from_manifest(d, c, p, t) ==
  LET soft == SoftScan(d, 1, c, p, t)
      tok  == TokenScan(d, 1, c, p, t, 0, 0)
      any  == AnyScan(d, 1, c, p)
  IN  IF HasKey(d, <<c, p, t>>) THEN Get(d, <<c, p, t>>)
      ELSE IF soft # 0 THEN d[soft].urls
      ELSE IF tok.best # 0 /\ d[tok.best].urls # <<>> /\ tok.best_overlap > 0
           THEN d[tok.best].urls
      ELSE IF any # 0 THEN d[any].urls
      ELSE <<>>

\* "if not urls:"
TruthyInverted(urls) == urls = <<>>

\* "if urls:" in get_image_list
Truthy(urls) == urls # <<>>

\* --------------------------------------------------- filesystem fallback
\* A directory entry is [name, dir, kids]; kids is in iterdir() order.
Absent == [name |-> <<>>, dir |-> FALSE, kids |-> <<>>]

\* code points of the characters that occur in file names, in ASCII order
CharOrder == <<".", "A", "G", "J", "N", "P", "S", "a", "b", "g", "j", "n", "p", "t", "x", "y", "z">>

Ord(ch) == CHOOSE i \in 1..Len(CharOrder) : CharOrder[i] = ch

\* a < b on str
RECURSIVE StrLess(_, _)
StrLess(a, b) ==
  IF b = <<>> THEN FALSE
  ELSE IF a = <<>> THEN TRUE
  ELSE IF Head(a) = Head(b) THEN StrLess(Tail(a), Tail(b))
  ELSE Ord(Head(a)) < Ord(Head(b))

RECURSIVE InsertSorted(_, _)
InsertSorted(sorted, n) ==
  IF sorted = <<>> THEN <<n>>
  ELSE IF StrLess(n.name, Head(sorted).name) THEN <<n>> \o sorted
  ELSE <<Head(sorted)>> \o InsertSorted(Tail(sorted), n)

\* sorted(folder.iterdir())
RECURSIVE SortedKids(_)
SortedKids(kids) ==
  IF kids = <<>> THEN <<>> ELSE InsertSorted(SortedKids(Tail(kids)), Head(kids))

\* position of the last "." of a name, 0 when there is none
RECURSIVE RFindDot(_, _)
RFindDot(name, i) ==
  IF i = 0 THEN 0 ELSE IF name[i] = "." THEN i ELSE RFindDot(name, i - 1)

\* Path.suffix
Suffix(name) ==
  LET i == RFindDot(name, Len(name))
  IN  IF 1 < i /\ i < Len(name) THEN SubSeq(name, i, Len(name)) ELSE <<>>

AllowedSuffixes ==
  { <<".", "j", "p", "g">>, <<".", "j", "p", "e", "g">>,
    <<".", "p", "n", "g">>, <<".", "w", "e", "b", "p">> }

RECURSIVE FirstDirNamed(_, _)
FirstDirNamed(kids, wanted_n) ==
  IF kids = <<>> THEN Absent
  ELSE IF Head(kids).dir /\ _norm(Head(kids).name) = wanted_n THEN Head(kids)
  ELSE FirstDirNamed(Tail(kids), wanted_n)

\* a handle is [path, node]: the names from the base directory down, and
\* the entry reached; node = Absent stands for the result None
_child_caseless(parent, wanted) ==
  IF parent.node = Absent \/ ~parent.node.dir
  THEN [path |-> parent.path, node |-> Absent]
  ELSE LET hit == FirstDirNamed(parent.node.kids, _norm(wanted))
       IN  [path |-> IF hit = Absent THEN parent.path
                     ELSE Append(parent.path, hit.name),
            node |-> hit]

RECURSIVE resolve_caseless_path(_, _)
resolve_caseless_path(cur, segments) ==
  IF segments = <<>> THEN cur
  ELSE LET nxt == _child_caseless(cur, Head(segments))
       IN  IF nxt.node = Absent THEN nxt
           ELSE resolve_caseless_path(nxt, Tail(segments))

RECURSIVE AllowedPaths(_, _)
AllowedPaths(path, files) ==
  IF files = <<>> THEN <<>>
  ELSE (IF Lower(Suffix(Head(files).name)) \in AllowedSuffixes
        THEN <<Append(path, Head(files).name)>> ELSE <<>>)
       \o AllowedPaths(path, Tail(files))

\* lines 180-186 of get_image_list; base is the entry of IMAGE_BASE
LocalImages(base, company, product, ptype) ==
  LET folder == resolve_caseless_path([path |-> <<base.name>>, node |-> base],
                                      <<company, product, ptype>>)
  IN  IF folder.node # Absent
      THEN AllowedPaths(folder.path, SortedKids(folder.node.kids))
      ELSE <<>>

\* ---------------------------------------------------------------- inputs
\* manifest rows as csv.DictReader yields them (a missing column is None)
CompanyA == <<"A", " ">>
CompanyE == <<"e">>
ProdP == <<"P">>
ProdS == <<"s">>
TypeS == <<"S">>
TypeSB == <<"s", " ", " ", "b">>
TypeP == <<"p">>
TypeBS == <<"b", "-", "s">>
UrlsUV == <<"u", ".", "j", "p", "g", "/", "|", " ", "v">>
UrlsW == <<"w", "|">>
UrlsZ == <<"z">>
UrlsBlank == <<" ", "|", "\t">>

MkRow(c, p, t, u) == [Company |-> c, Product |-> p, Type |-> t, ImageURLs |-> u]

GoodRows ==
  {MkRow(CompanyA, p, t, u) : p \in {ProdP, ProdS},
                              t \in {TypeS, TypeSB, TypeP, TypeBS},
                              u \in {UrlsUV, UrlsW}}
  \cup {MkRow(CompanyE, ProdP, TypeS, UrlsZ)}

BadRows ==
  { MkRow(None, ProdP, TypeS, UrlsUV),
    MkRow(CompanyA, <<" ">>, TypeS, UrlsW),
    MkRow(CompanyA, ProdP, <<>>, UrlsW),
    MkRow(CompanyA, ProdP, TypeS, UrlsBlank),
    MkRow(CompanyA, ProdP, TypeS, None) }

Rows == GoodRows \cup BadRows

\* arguments of get_image_list as the spreadsheet supplies them
QueryCompanies == {<<"FW_A">>, None}
QueryProducts == {<<"p", " ">>, <<"S">>, <<"x">>, None}
QueryTypes ==
  { <<"s">>, <<"s", "b">>, <<"S", "NBSP", "b">>, <<"s", "_", "c">>, <<"c">>,
    <<"P">>, None }

File(n) == [name |-> n, dir |-> FALSE, kids |-> <<>>]
Dir(n, k) == [name |-> n, dir |-> TRUE, kids |-> k]

\* states of the images/ directory
FsTrees ==
  { Absent,
    Dir(<<"images">>, <<Dir(<<"A">>, <<Dir(<<"P">>, <<Dir(<<"s", " ", "b">>, <<>>)>>)>>)>>),
    Dir(<<"images">>,
        << File(<<"a">>),
           Dir(<<"A">>,
               << Dir(<<"P">>,
                      << Dir(<<"S", " ", "b">>,
                             << File(<<"z", ".", "t", "x", "t">>),
                                File(<<"y", ".", "P", "N", "G">>),
                                File(<<".", "p", "n", "g">>),
                                File(<<"x", ".", "j", "p", "g">>) >>) >>) >>) >>) }

\* ----------------------------------------------------------------- state
VARIABLES
  pc,        \* "start", "load", "idle", "normal", "swapped", "fs", "return"
  env,       \* what load_manifest reads: secrets, the remote payload, the file
  r,         \* the loop variable of "for r in rows": <<>> or <<row>>
  nrows,     \* rows iterated so far
  manifest,  \* the dict load_manifest is building
  MANIFEST,  \* the module global
  query,     \* <<company, product, ptype>> of the current call
  tried,     \* the stages the current call has run, in order
  images,    \* the images/ tree the filesystem fallback read
  result     \* what the call returned

vars == <<pc, env, r, nrows, manifest, MANIFEST, query, tried, images, result>>

NoEnv == [csv_text |-> <<>>, url |-> <<>>, remote_ok |-> FALSE,
          remote |-> <<>>, local_exists |-> FALSE, local |-> <<>>]

NoQuery == <<None, None, None>>

\* the loop of lines 116-125 is entered with manifest = {}
Init ==
  /\ pc = "load"
  /\ env = NoEnv
  /\ r = <<>>
  /\ nrows = 0
  /\ manifest = <<>>
  /\ MANIFEST = <<>>
  /\ query = NoQuery
  /\ tried = <<>>
  /\ images = Absent
  /\ result = <<>>

\* one iteration of the loop, on any next row
IndexRow ==
  /\ pc = "load"
  /\ nrows < MaxRows
  /\ \E row \in Rows :
       /\ r' = <<row>>
       /\ manifest' = IndexOne(manifest, row)
  /\ nrows' = nrows + 1
  /\ UNCHANGED <<pc, env, MANIFEST, query, tried, images, result>>

\* "return manifest" and "MANIFEST = load_manifest()"
ReturnManifest ==
  /\ pc = "load"
  /\ MANIFEST' = manifest
  /\ pc' = "idle"
  /\ r' = <<>>
  /\ UNCHANGED <<env, nrows, manifest, query, tried, images, result>>

\* a call get_image_list(company, product, ptype)
Call ==
  /\ pc = "idle"
  /\ \E company \in QueryCompanies, product \in QueryProducts, ptype \in QueryTypes :
       query' = <<company, product, ptype>>
  /\ pc' = "normal"
  /\ UNCHANGED <<env, r, nrows, manifest, MANIFEST, tried, images, result>>

QC == _norm(query[1])
QP == _norm(query[2])
QT == _norm(query[3])

\* lines 170-172
MatchNormal ==
  /\ pc = "normal"
  /\ tried' = Append(tried, "normal")
  /\ LET urls == _match_from_manifest(MANIFEST, QC, QP, QT)
     IN  IF Truthy(urls)
         THEN result' = urls /\ pc' = "return"
         ELSE result' = result /\ pc' = "swapped"
  /\ UNCHANGED <<env, r, nrows, manifest, MANIFEST, query, images>>

\* lines 175-177
MatchSwapped ==
  /\ pc = "swapped"
  /\ tried' = Append(tried, "swapped")
  /\ LET urls == _match_from_manifest(MANIFEST, QC, QT, QP)
     IN  IF Truthy(urls)
         THEN result' = urls /\ pc' = "return"
         ELSE result' = result /\ pc' = "fs"
  /\ UNCHANGED <<env, r, nrows, manifest, MANIFEST, query, images>>

\* lines 180-186, on whatever the images/ directory holds at that time
FsFallback ==
  /\ pc = "fs"
  /\ tried' = Append(tried, "fs")
  /\ \E tree \in FsTrees :
       /\ images' = tree
       /\ result' = LocalImages(tree, query[1], query[2], query[3])
  /\ pc' = "return"
  /\ UNCHANGED <<env, r, nrows, manifest, MANIFEST, query>>

\* the caller takes the returned list (lines 349, 383); the locals of the
\* call are gone
Return ==
  /\ pc = "return"
  /\ pc' = "idle"
  /\ query' = NoQuery
  /\ tried' = <<>>
  /\ images' = Absent
  /\ result' = <<>>
  /\ UNCHANGED <<env, r, nrows, manifest, MANIFEST>>

Next ==
  \/ IndexRow
  \/ ReturnManifest
  \/ Call
  \/ MatchNormal
  \/ MatchSwapped
  \/ FsFallback
  \/ Return

Spec == Init /\ [][Next]_vars

\* the call has returned
Returned == pc = "return"

\* ------------------------------------------- load_manifest, as a whole
\* The names bound where line 99 reads "url": the locals of load_manifest
\* assigned before it and the module globals.  "url" is not among them, so
\* the read raises NameError inside the try, and "except Exception" leaves
\* rows as line 97 set it.
NamesInScope ==
  { "csv_text", "rows", "os", "io", "csv", "tempfile", "Path", "unicodedata",
    "st", "pd", "Image", "Presentation", "Inches", "Pt", "RGBColor", "requests",
    "_norm", "_tokens", "_child_caseless", "resolve_caseless_path",
    "show_image_safe", "BASE_DIR", "EXCEL_PATH", "IMAGE_BASE", "LOGO_BASE",
    "FIRST_PATH", "LAST_PATH", "LOCAL_MANIFEST", "load_excel", "load_manifest" }

\* lines 94-107: the rows the loop iterates
ReadRows(e) ==
  LET rows == <<>>
  IN  IF "url" \notin NamesInScope THEN rows
      ELSE IF e.url # <<>> THEN (IF e.remote_ok THEN e.remote ELSE rows)
      ELSE IF e.local_exists THEN e.local
      ELSE rows

RowA == MkRow(CompanyA, ProdP, TypeS, UrlsUV)
RowB == MkRow(CompanyA, ProdS, TypeSB, UrlsW)
RowE == MkRow(CompanyE, ProdP, TypeS, UrlsZ)

Envs ==
  [ csv_text : {<<>>, <<RowE>>},
    url : {<<>>, <<"h">>},
    remote_ok : BOOLEAN,
    remote : {<<RowA>>, <<RowA, RowB>>},
    local_exists : BOOLEAN,
    local : {<<>>, <<RowB, RowA>>} ]

InitLoad ==
  /\ pc = "start"
  /\ env \in Envs
  /\ r = <<>>
  /\ nrows = 0
  /\ manifest = <<>>
  /\ MANIFEST = <<>>
  /\ query = NoQuery
  /\ tried = <<>>
  /\ images = Absent
  /\ result = <<>>

\* MANIFEST = load_manifest(), lines 94-126
LoadManifest ==
  /\ pc = "start"
  /\ nrows' = Len(ReadRows(env))
  /\ manifest' = BuildIndex(<<>>, ReadRows(env))
  /\ MANIFEST' = manifest'
  /\ pc' = "idle"
  /\ UNCHANGED <<env, r, query, tried, images, result>>

NextLoad ==
  \/ LoadManifest
  \/ Call
  \/ MatchNormal
  \/ MatchSwapped
  \/ FsFallback
  \/ Return

LoadSpec == InitLoad /\ [][NextLoad]_vars

\* ================================================================ claims
\* entry i of the index shares the query's normalized company and product
SameCP(i) == MANIFEST[i].key[1] = QC /\ MANIFEST[i].key[2] = QP

\* the query type is the entry type, a prefix of it or a substring of it
QueryInsideEntry(i) ==
  /\ SameCP(i)
  /\ \/ MANIFEST[i].key[3] = QT
     \/ StartsWith(MANIFEST[i].key[3], QT)
     \/ Contains(QT, MANIFEST[i].key[3])

\* the entry type is a prefix or a substring of the query type
EntryInsideQuery(i) ==
  /\ SameCP(i)
  /\ \/ StartsWith(QT, MANIFEST[i].key[3])
     \/ Contains(MANIFEST[i].key[3], QT)

QueryIsKey == \E i \in 1..Len(MANIFEST) : MANIFEST[i].key = <<QC, QP, QT>>

Entries == 1..Len(MANIFEST)

\* the call returned a list found by one of the two manifest cascades
FromManifest == Returned /\ tried[Len(tried)] # "fs"

\* C1: when the normalized query triple is a key of the index (a row's
\* primary key or its swapped alias), get_image_list returns exactly the
\* list stored under that key, whatever else the index holds; the row
\* ("A ", "P", "S", "u.jpg/| v") makes the queries (a, p, s) and (a, s, p)
\* return [u.jpg, v].
ExactMatch ==
  /\ Returned =>
       \A i \in Entries : MANIFEST[i].key = <<QC, QP, QT>> => result = MANIFEST[i].urls
  /\ (pc = "load" /\ r = <<RowA>>) =>
       /\ Get(manifest, <<<<"a">>, <<"p">>, <<"s">>>>) = <<<<"u", ".", "j", "p", "g">>, <<"v">>>>
       /\ Get(manifest, <<<<"a">>, <<"s">>, <<"p">>>>) = <<<<"u", ".", "j", "p", "g">>, <<"v">>>>

\* C1 witness: an exact hit on an alias key, not the first entry of an
\* index that also holds an earlier entry of the same company and product
ExactMatchSeen ==
  /\ Returned
  /\ \E i \in Entries :
       /\ i > 1
       /\ MANIFEST[i].key = <<QC, QP, QT>>
       /\ SameCP(1)
       /\ MANIFEST[1].urls # MANIFEST[i].urls
       /\ result = MANIFEST[i].urls
       /\ Len(result) = 2

\* C3: every key (c, p, t) of the index being built, and of the index
\* returned, has its swapped key (c, t, p) in the index with the same list.
Symmetric(d) ==
  \A i \in 1..Len(d) :
    \E j \in 1..Len(d) : d[j].key = Swap(d[i].key) /\ d[j].urls = d[i].urls

SwapSymmetry == Symmetric(manifest) /\ Symmetric(MANIFEST)

\* C3 witness: the second row's primary key is the first row's alias key,
\* so both entries of the first row were overwritten
SwapSymmetrySeen ==
  /\ pc = "load"
  /\ nrows = 2
  /\ Len(manifest) = 2
  /\ r # <<>>
  /\ RowAccepted(r[1])
  /\ RowKey(r[1]) = manifest[2].key
  /\ manifest[1].key # manifest[2].key
  /\ manifest[1].urls = RowUrls(r[1])

\* C4: every key of the index has three non-empty normalized fields and a
\* list of at least one reference, each non-empty after trimming; a row
\* with an empty company, product or type, or without a non-empty
\* reference, leaves the index as it was.
WellFormed(d) ==
  \A i \in 1..Len(d) :
    /\ \A f \in 1..3 : d[i].key[f] # <<>> /\ _norm(d[i].key[f]) = d[i].key[f]
    /\ d[i].urls # <<>>
    /\ \A j \in 1..Len(d[i].urls) : Strip(d[i].urls[j]) # <<>>

Blank(text) == text = None \/ \A i \in 1..Len(text) : IsSpace(text[i])

NoReference(field) ==
  field = None \/ \A i \in 1..Len(field) : IsSpace(field[i]) \/ field[i] = "|"

Malformed(row) ==
  \/ Blank(row.Company)
  \/ Blank(row.Product)
  \/ Blank(row.Type)
  \/ NoReference(row.ImageURLs)

IndexWellFormed ==
  /\ [](WellFormed(manifest) /\ WellFormed(MANIFEST))
  /\ [][(pc = "load" /\ r' # <<>> /\ Malformed(r'[1])) => manifest' = manifest]_vars

\* C4 witness: a malformed row was read into a non-empty index
IndexWellFormedSeen ==
  /\ pc = "load"
  /\ r # <<>>
  /\ Malformed(r[1])
  /\ manifest # <<>>

\* the first entry, in insertion order, that satisfies P
FirstOf(P(_)) == CHOOSE i \in Entries : P(i) /\ \A j \in 1..(i - 1) : ~P(j)

EitherInside(i) == QueryInsideEntry(i) \/ EntryInsideQuery(i)

\* C5 as stated: when the query triple is not a key, the call returns the
\* list of the first entry of the same company and product whose type
\* matches the query type in either direction (entry type inside query
\* type, or query type inside entry type).
SoftMatchBothWays ==
  (Returned /\ ~QueryIsKey /\ \E i \in Entries : EitherInside(i))
    => result = MANIFEST[FirstOf(EitherInside)].urls

\* C5 amended: when the query triple is not a key, the call returns the
\* list of the first entry, in insertion order, of the same company and
\* product whose type has the query type as a prefix or as a substring.
SoftMatchQueryInside ==
  (Returned /\ ~QueryIsKey /\ \E i \in Entries : QueryInsideEntry(i))
    => result = MANIFEST[FirstOf(QueryInsideEntry)].urls

\* C5 witness: a soft hit on a non-empty query type that is neither the
\* first entry of the index nor the first of its company and product
SoftMatchSeen ==
  /\ Returned
  /\ ~QueryIsKey
  /\ QT # <<>>
  /\ \E i \in Entries :
       /\ QueryInsideEntry(i)
       /\ \E j \in 1..(i - 1) : SameCP(j) /\ MANIFEST[j].urls # MANIFEST[i].urls
       /\ result = MANIFEST[i].urls

\* C6 as stated: a query with an empty normalized company, product or type
\* never gets a list out of the manifest index.
EmptyFieldNeverMatches ==
  (Returned /\ (QC = <<>> \/ QP = <<>> \/ QT = <<>>)) => ~FromManifest

\* C6 amended: a query with an empty normalized company never gets a list
\* out of the manifest index, and a query with an empty company, product
\* or type is never a key of the index, in the given or the swapped order.
EmptyCompanyNeverMatches ==
  /\ (Returned /\ QC = <<>>) => ~FromManifest
  /\ (Returned /\ (QC = <<>> \/ QP = <<>> \/ QT = <<>>)) =>
       \A i \in Entries :
         MANIFEST[i].key # <<QC, QP, QT>> /\ MANIFEST[i].key # <<QC, QT, QP>>

\* C6 witness: a query without a company, with a product and a type that
\* the index holds, fell through to the filesystem
EmptyCompanySeen ==
  /\ Returned
  /\ QC = <<>>
  /\ ~FromManifest
  /\ \E i \in Entries : MANIFEST[i].key[2] = QP /\ MANIFEST[i].key[3] = QT

\* C7: when the query triple is no key and no entry of the same company and
\* product has the query type as a prefix or substring, and some entry of
\* the same company and product shares a token with the query type, the
\* call returns the list of the entry with the largest overlap, the first
\* in insertion order among those with the largest; the list is a function
\* of the index and the query.
MaxOverlap(i) ==
  /\ SameCP(i)
  /\ Overlap(QT, MANIFEST[i].key[3]) > 0
  /\ \A j \in Entries : SameCP(j) =>
       Overlap(QT, MANIFEST[j].key[3]) <= Overlap(QT, MANIFEST[i].key[3])

TokenOverlapMatch ==
  ( /\ Returned
    /\ ~QueryIsKey
    /\ ~\E i \in Entries : QueryInsideEntry(i)
    /\ \E i \in Entries : SameCP(i) /\ Overlap(QT, MANIFEST[i].key[3]) > 0 )
    => result = MANIFEST[FirstOf(MaxOverlap)].urls

\* C7 witness: tier 3 decided between two entries tied at the largest
\* overlap that hold different lists
TokenOverlapSeen ==
  /\ Returned
  /\ ~QueryIsKey
  /\ ~\E i \in Entries : QueryInsideEntry(i)
  /\ \E i, j \in Entries :
       /\ i < j
       /\ MaxOverlap(i)
       /\ MaxOverlap(j)
       /\ MANIFEST[i].urls # MANIFEST[j].urls
       /\ result = MANIFEST[i].urls

\* C8: whenever the index holds an entry of the query's normalized company
\* and product, the call returns a non-empty list that is the list of one
\* of those entries, whatever the query type.
CompanyProductFallback ==
  (Returned /\ \E i \in Entries : SameCP(i))
    => /\ result # <<>>
       /\ \E i \in Entries : SameCP(i) /\ result = MANIFEST[i].urls

\* C8 witness: tier 4 decided: the query type is no key, is inside no
\* entry type and shares no token with any entry of the company and product
CompanyProductFallbackSeen ==
  /\ Returned
  /\ QT # <<>>
  /\ ~QueryIsKey
  /\ \E i \in Entries : SameCP(i)
  /\ \A i \in Entries :
       SameCP(i) => ~QueryInsideEntry(i) /\ Overlap(QT, MANIFEST[i].key[3]) = 0
  /\ result = MANIFEST[FirstOf(SameCP)].urls

\* some file with an allowed extension lies in a directory reached from
\* images/ through entries named like the company, product and type
AllowedFileExists ==
  /\ images.dir
  /\ \E a \in 1..Len(images.kids) :
       LET cdir == images.kids[a] IN
       /\ cdir.dir /\ _norm(cdir.name) = QC
       /\ \E b \in 1..Len(cdir.kids) :
            LET pdir == cdir.kids[b] IN
            /\ pdir.dir /\ _norm(pdir.name) = QP
            /\ \E c \in 1..Len(pdir.kids) :
                 LET tdir == pdir.kids[c] IN
                 /\ tdir.dir /\ _norm(tdir.name) = QT
                 /\ \E f \in 1..Len(tdir.kids) :
                      Lower(Suffix(tdir.kids[f].name)) \in AllowedSuffixes

Stages == <<"normal", "swapped", "fs">>

Provenance ==
  (FromManifest /\ result # <<>>) =>
    \E i \in Entries :
      /\ MANIFEST[i].urls = result
      /\ MANIFEST[i].key[1] = QC
      /\ MANIFEST[i].key[2] = QP \/ MANIFEST[i].key[2] = QT

\* C10 witness: the index holds another company's entry first, and the
\* swapped cascade returned a list of the query's company
ProvenanceSeen ==
  /\ FromManifest
  /\ result # <<>>
  /\ tried = <<"normal", "swapped">>
  /\ MANIFEST[1].key[1] # QC
  /\ MANIFEST[1].urls # result

\* C2: the index is built from the fetched payload when a manifest URL is
\* configured, else from the local manifest file when it exists, and
\* holds every acceptable row of that source.
ChosenSource(e) ==
  IF e.url # <<>> THEN (IF e.remote_ok THEN e.remote ELSE <<>>)
  ELSE IF e.local_exists THEN e.local
  ELSE <<>>

SourceSelection ==
  pc # "start" =>
    \A n \in 1..Len(ChosenSource(env)) :
      LET row == ChosenSource(env)[n] IN
      ~Malformed(row) =>
        \E i \in Entries : MANIFEST[i].key = RowKey(row)

====
